---- MODULE Spec2Model ----
(***************************************************************************)
(* Model of the Orchestrall Python SDK (orchestrall_sdk.py):               *)
(*   - the requests session with its urllib3 Retry policy,                 *)
(*   - the REST operations and the MCP operations built on it,             *)
(*   - the WebSocket callbacks built by connect_websocket.                 *)
(* Spec   : one client issuing REST / MCP calls, one HTTP attempt a step.  *)
(* SpecWs : the event stream, one WebSocketApp callback a step.            *)
(* SpecIds: concurrent callers of the MCP client building their requests.  *)
(* and of the PatientFlow migration script (migrate_patientflow_pr.py):    *)
(* SpecMig: run_migration, one migration step a step.                      *)
(***************************************************************************)
EXTENDS Integers, Sequences, FiniteSets, TLC

VARIABLES
    retries,    \* OrchestrallConfig.retries
    clock,      \* int(time.time() * 1000), read when an MCP request is built
    pc,         \* "idle" | "sending" | "done": position of the one caller
    op,         \* the SDK method being executed
    reqId,      \* MCPRequest.id of the request sent (-1: not an MCP call)
    total,      \* Retry.total still left for this call
    history,    \* Retry.history of this call: one entry per failed attempt
    attempts,   \* HTTP attempts made by this call, counting the first
    seen,       \* what each attempt of this call ended in, in order
    elapsed,    \* time units since the call started
    response,   \* the response the session returned to the method, if any
    result,     \* what the SDK method returned or raised
    wsState,    \* "Disconnected" | "Connecting" | "Connected" | "Failed"
    wsLib,      \* what the installed websocket-client and the caller's
                \* on_close callback do where versions and callers differ
    handlers,   \* keys of the event_handlers dict given to connect_websocket
    connects,   \* connections started so far (run_forever calls)
    frames,     \* inbound frames processed on this connection
    frame,      \* the last inbound frame processed
    calls,      \* caller callbacks run on this connection: <<[key, arg]>>
    printed,    \* lines printed by the SDK's callbacks on this connection
    callers,    \* concurrent callers of one OrchestrallMCPClient: for each
                \* its position and the MCP request it built
    migSource,  \* files of files_to_copy missing under source_dir
    migTarget,  \* what exists under target_dir before the migration
    migPc,      \* run_migration: 0 not called, i about to run step i,
                \* Len(Steps) + 1 returned
    migTrace,   \* the steps run_migration has run, with what each returned
    migWrites,  \* paths created or written under target_dir
    migResult   \* what run_migration returned: "none" | "True" | "False"

httpVars == <<retries, clock, pc, op, reqId, total, history, attempts, seen, elapsed,
              response, result>>
wsVars == <<wsState, wsLib, handlers, connects, frames, frame, calls, printed>>
migVars == <<migSource, migTarget, migPc, migTrace, migWrites, migResult>>
vars == <<retries, clock, pc, op, reqId, total, history, attempts, seen, elapsed, response,
          result,
          wsState, wsLib, handlers, connects, frames, frame, calls, printed,
          callers, migSource, migTarget, migPc, migTrace, migWrites, migResult>>

----------------------------------------------------------------------------
(* Bounds of the model *)

MaxRetries == 2     \* config.retries ranges over 0..MaxRetries
Timeout == 2        \* config.timeout, in time units
MaxClock == 1       \* the clock ranges over 0..MaxClock
MaxFrames == 2      \* inbound frames per connection
MaxConnects == 2    \* connections started by the caller

----------------------------------------------------------------------------
(* Python values: every JSON value is a record, so that any two compare *)

None == [none |-> TRUE]
J(s) == [str |-> s]
Has(d, k) == k \in DOMAIN d
\* dict.get(k): the value, or None when the key is missing
PyGet(d, k) == IF Has(d, k) THEN d[k] ELSE None
\* Python truthiness of a JSON value: None and the empty dict are falsy
Truthy(v) == v # None /\ DOMAIN v # {}

----------------------------------------------------------------------------
(* The session's retry policy: Retry(total=retries, backoff_factor=1,      *)
(* status_forcelist=[429, 500, 502, 503, 504]), every other parameter left *)
(* at urllib3's default.                                                   *)

StatusForcelist == {429, 500, 502, 503, 504}
BackoffFactor == 1
BackoffMax == 120
\* a policy that also retries POST (allowed_methods=None)
AllowedMethodsWithPost == {"HEAD", "GET", "PUT", "DELETE", "OPTIONS", "TRACE", "POST"}

\* Retry.DEFAULT_ALLOWED_METHODS: allowed_methods is not passed
AllowedMethods == {"HEAD", "GET", "PUT", "DELETE", "OPTIONS", "TRACE"}
\* Retry.RETRY_AFTER_STATUS_CODES: respect_retry_after_header is not passed
RetryAfterStatusCodes == {413, 429, 503}

GetMethods == {"get_available_agents", "get_available_workflows",
               "get_available_plugins", "get_platform_analytics", "get_health",
               "get_mcp_capabilities"}
PostMethods == {"execute_agent", "execute_workflow", "execute_tool",
                "get_available_tools"}
Ops == GetMethods \cup PostMethods
McpOps == {"execute_tool", "get_available_tools"}

\* session.get(...) or session.post(...) in the method's body
Method(o) == IF o \in PostMethods THEN "POST" ELSE "GET"

IsMethodRetryable(method) == method \in AllowedMethods

\* Retry.is_retry(method, status_code, has_retry_after)
IsRetry(method, tot, status, hasRetryAfter) ==
    /\ IsMethodRetryable(method)
    /\ \/ status \in StatusForcelist
       \/ tot # 0 /\ hasRetryAfter /\ status \in RetryAfterStatusCodes

\* total counted as attempts, not as retries
IsExhaustedAtZero(tot) == tot <= 0

\* Retry.is_exhausted() with only total set
IsExhausted(tot) == tot < 0

RECURSIVE Pow2(_)
Pow2(n) == IF n <= 0 THEN 1 ELSE 2 * Pow2(n - 1)

Min(a, b) == IF a <= b THEN a ELSE b

\* Retry.get_backoff_time(): no backoff after the first failure, then
\* backoff_factor * 2 ** (consecutive failures - 1), at most BACKOFF_MAX
GetBackoffTime(h) ==
    IF Len(h) <= 1 THEN 0 ELSE Min(BackoffMax, BackoffFactor * Pow2(Len(h) - 1))

\* Retry.sleep(response): the Retry-After header when the response has one,
\* the backoff time otherwise
SleepTime(h, o) ==
    IF o.kind = "response" /\ o.retryAfter THEN 1 ELSE GetBackoffTime(h)

----------------------------------------------------------------------------
(* What one HTTP attempt can end in *)

ConnectErrors == {"connect_timeout", "connect_refused"}
ReadErrors == {"read_timeout"}
NoBody == [kind |-> "none"]

ErrorOutcomes ==
    [kind : ConnectErrors \cup ReadErrors, status : {0}, retryAfter : {FALSE},
     body : {NoBody}]

\* time one attempt takes: a timeout takes config.timeout, a refused
\* connection no time, a response one unit
Duration(o) ==
    CASE o.kind \in {"connect_timeout", "read_timeout"} -> Timeout
      [] o.kind = "connect_refused" -> 0
      [] OTHER -> 1

HistoryEntry(o) == [error |-> IF o.kind = "response" THEN "none" ELSE o.kind,
                    status |-> o.status]

\* an increment that re-raises a read error whatever the method is
IncrementReraisingReads(method, tot, h, o) ==
    LET newTotal == tot - 1
        newHist == Append(h, HistoryEntry(o))
    IN  IF o.kind \in ReadErrors
        THEN [raise |-> "reraise", total |-> newTotal, history |-> h]
        ELSE IF newTotal < 0
        THEN [raise |-> "MaxRetryError", total |-> newTotal, history |-> newHist]
        ELSE [raise |-> "none", total |-> newTotal, history |-> newHist]

\* Retry.increment(method, url, response, error): the new Retry, or the
\* exception it raises
Increment(method, tot, h, o) ==
    LET newTotal == tot - 1
        newHist == Append(h, HistoryEntry(o))
    IN  IF o.kind \in ReadErrors /\ ~IsMethodRetryable(method)
        THEN [raise |-> "reraise", total |-> newTotal, history |-> h]
        ELSE IF IsExhausted(newTotal)
        THEN [raise |-> "MaxRetryError", total |-> newTotal, history |-> newHist]
        ELSE [raise |-> "none", total |-> newTotal, history |-> newHist]

\* an adapter without the ResponseError -> RetryError branch
AdapterExceptionNoRetryError(raise, o) ==
    IF raise = "reraise"
    THEN (IF o.kind = "read_timeout" THEN "ReadTimeout" ELSE "ConnectionError")
    ELSE IF o.kind = "connect_timeout" THEN "ConnectTimeout" ELSE "ConnectionError"

\* HTTPAdapter.send: the requests exception for what urlopen raised
AdapterException(raise, o) ==
    IF raise = "reraise"
    THEN (IF o.kind = "read_timeout" THEN "ReadTimeout" ELSE "ConnectionError")
    ELSE CASE o.kind = "connect_timeout" -> "ConnectTimeout"
           [] o.kind = "response" -> "RetryError"
           [] OTHER -> "ConnectionError"

\* one pass of HTTPConnectionPool.urlopen under the session's Retry:
\* "return" the response, "retry" after a sleep, or "raise"
UrlOpen(method, tot, h, o) ==
    IF o.kind = "response" /\ ~IsRetry(method, tot, o.status, o.retryAfter)
    THEN [next |-> "return", total |-> tot, history |-> h, exc |-> "none", sleep |-> 0]
    ELSE LET inc == Increment(method, tot, h, o)
         IN  IF inc.raise = "none"
             THEN [next |-> "retry", total |-> inc.total, history |-> inc.history,
                   exc |-> "none", sleep |-> SleepTime(inc.history, o)]
             ELSE [next |-> "raise", total |-> inc.total, history |-> inc.history,
                   exc |-> AdapterException(inc.raise, o), sleep |-> 0]

----------------------------------------------------------------------------
(* Response bodies the server may send *)

EmptyDict == [k \in {} |-> None]
NotJson == [kind |-> "notjson"]
JsonArray == [kind |-> "array"]
JsonObject(obj) == [kind |-> "object", obj |-> obj]

AgentData ==
    {[response |-> J("found"), metadata |-> J("md")],
     [response |-> J("found"), metadata |-> J("md"), actions |-> J("acts")],
     [response |-> J("found")]}
WorkflowData ==
    {[executionId |-> J("e1"), status |-> J("running")],
     [executionId |-> J("e1"), status |-> J("done"), result |-> J("r"),
      metadata |-> J("md")],
     [status |-> J("done")]}
ListData == {[items |-> J("i1")]}

\* {"success": ..., "data": ...}, each key present or not
Envelopes(dataSet) ==
    {s @@ d : s \in {EmptyDict, [success |-> TRUE], [success |-> FALSE]},
              d \in {EmptyDict} \cup {[data |-> x] : x \in dataSet \cup {None}}}

McpResults == {[tools |-> J("t1")], [content |-> J("c1")]}
McpErrors == {None, EmptyDict, [code |-> J("-32601"), message |-> J("no such tool")],
              [code |-> J("-32000")]}

\* {"jsonrpc": "2.0", "id": ..., "result": ..., "error": ...}: the id is the
\* request's or another one, result and error are each present or not
McpBodies(id) ==
    {[jsonrpc |-> J("2.0"), id |-> i] @@ r @@ e :
        i \in {id, id + 1},
        r \in {EmptyDict} \cup {[result |-> x] : x \in McpResults},
        e \in {EmptyDict} \cup {[error |-> x] : x \in McpErrors}}
    \cup {[jsonrpc |-> J("2.0"), id |-> id, result |-> [content |-> J("c1")],
           extra |-> J("x")]}

Objects(o, id) ==
    CASE o = "execute_agent" -> Envelopes(AgentData)
      [] o = "execute_workflow" -> Envelopes(WorkflowData)
      [] o \in McpOps -> McpBodies(id)
      [] o = "get_health" -> {[status |-> J("healthy")]}
      [] o = "get_mcp_capabilities" -> {EmptyDict, [result |-> [tools |-> J("t1")]]}
      [] OTHER -> Envelopes(ListData)

Bodies(o, id) == {NotJson, JsonArray} \cup {JsonObject(x) : x \in Objects(o, id)}

ResponseOutcomes(o, id) ==
    [kind : {"response"}, status : {200}, retryAfter : {FALSE}, body : Bodies(o, id)]
    \cup [kind : {"response"}, status : {404, 429, 500}, retryAfter : {FALSE},
          body : {NoBody}]
    \cup [kind : {"response"}, status : {413, 503}, retryAfter : BOOLEAN,
          body : {NoBody}]

Outcomes(o, id) == ResponseOutcomes(o, id) \cup ErrorOutcomes

----------------------------------------------------------------------------
(* The SDK methods, applied to the response the session returned *)

Raise(exc, status, msg) ==
    [ok |-> FALSE, exc |-> exc, status |-> status, msg |-> msg, value |-> None]
Return(v) == [ok |-> TRUE, exc |-> "none", status |-> 0, msg |-> None, value |-> v]
NoResult == [ok |-> FALSE, exc |-> "none", status |-> 0, msg |-> None, value |-> None]

\* Response.raise_for_status()
RaisesForStatus(status) == status >= 400 /\ status < 600

\* a method that returns the whole envelope instead of result['data']
ReturnEnvelope(resp) ==
    IF resp.status >= 400 /\ resp.status < 600 THEN Raise("HTTPError", resp.status, None)
    ELSE IF resp.body.kind = "notjson" THEN Raise("JSONDecodeError", 0, None)
    ELSE IF resp.body.kind = "array" THEN Raise("TypeError", 0, None)
    ELSE IF ~Has(resp.body.obj, "data") THEN Raise("KeyError", 0, J("data"))
    ELSE Return(resp.body.obj)

\* result = response.json(); return result['data']
ReturnData(resp) ==
    IF RaisesForStatus(resp.status) THEN Raise("HTTPError", resp.status, None)
    ELSE IF resp.body.kind = "notjson" THEN Raise("JSONDecodeError", 0, None)
    ELSE IF resp.body.kind = "array" THEN Raise("TypeError", 0, None)
    ELSE IF ~Has(resp.body.obj, "data") THEN Raise("KeyError", 0, J("data"))
    ELSE Return(resp.body.obj.data)

\* the envelope check of execute_agent and execute_workflow, then the
\* required keys of data
CheckedData(resp, failure, required) ==
    IF RaisesForStatus(resp.status) THEN Raise("HTTPError", resp.status, None)
    ELSE IF resp.body.kind = "notjson" THEN Raise("JSONDecodeError", 0, None)
    ELSE IF resp.body.kind = "array" THEN Raise("AttributeError", 0, None)
    ELSE IF ~(Has(resp.body.obj, "success") /\ resp.body.obj.success)
         THEN Raise("Exception", 0, [prefix |-> failure, detail |-> resp.body.obj])
    ELSE IF ~Has(resp.body.obj, "data") THEN Raise("KeyError", 0, J("data"))
    ELSE IF resp.body.obj.data = None THEN Raise("TypeError", 0, None)
    ELSE IF \E k \in required : ~Has(resp.body.obj.data, k)
         THEN Raise("KeyError", 0, None)
    ELSE Return(resp.body.obj.data)

ExecuteAgent(resp) ==
    LET r == CheckedData(resp, "Agent execution failed", {"response", "metadata"})
    IN  IF ~r.ok THEN r
        ELSE Return([response |-> r.value.response, metadata |-> r.value.metadata,
                     actions |-> PyGet(r.value, "actions")])

ExecuteWorkflow(resp) ==
    LET r == CheckedData(resp, "Workflow execution failed", {"executionId", "status"})
    IN  IF ~r.ok THEN r
        ELSE Return([execution_id |-> r.value.executionId, status |-> r.value.status,
                     result |-> PyGet(r.value, "result"),
                     metadata |-> IF Has(r.value, "metadata") THEN r.value.metadata
                                  ELSE EmptyDict])

GetAvailableAgents(resp) == ReturnData(resp)
GetAvailableWorkflows(resp) == ReturnData(resp)
GetAvailablePlugins(resp) == ReturnData(resp)
GetPlatformAnalytics(resp) == ReturnData(resp)

GetHealth(resp) ==
    IF RaisesForStatus(resp.status) THEN Raise("HTTPError", resp.status, None)
    ELSE IF resp.body.kind = "notjson" THEN Raise("JSONDecodeError", 0, None)
    ELSE IF resp.body.kind = "array" THEN Return(JsonArray)
    ELSE Return(resp.body.obj)

GetMcpCapabilities(resp) ==
    IF RaisesForStatus(resp.status) THEN Raise("HTTPError", resp.status, None)
    ELSE IF resp.body.kind = "notjson" THEN Raise("JSONDecodeError", 0, None)
    ELSE IF resp.body.kind = "array" THEN Raise("TypeError", 0, None)
    ELSE IF ~Has(resp.body.obj, "result") THEN Raise("KeyError", 0, J("result"))
    ELSE Return(resp.body.obj.result)

McpFields == {"jsonrpc", "id", "result", "error"}

\* execute_mcp: MCPResponse(**response.json()); a missing field takes the
\* dataclass default, an unknown one is a TypeError
ExecuteMcp(resp) ==
    IF RaisesForStatus(resp.status) THEN Raise("HTTPError", resp.status, None)
    ELSE IF resp.body.kind = "notjson" THEN Raise("JSONDecodeError", 0, None)
    ELSE IF resp.body.kind = "array" THEN Raise("TypeError", 0, None)
    ELSE IF ~(DOMAIN resp.body.obj \subseteq McpFields) THEN Raise("TypeError", 0, None)
    ELSE Return([jsonrpc |-> IF Has(resp.body.obj, "jsonrpc") THEN resp.body.obj.jsonrpc
                             ELSE J("2.0"),
                 id |-> resp.body.obj.id,
                 result |-> PyGet(resp.body.obj, "result"),
                 error |-> PyGet(resp.body.obj, "error")])

\* if response.error: raise Exception(... response.error['message'])
McpError(mcp, failure) ==
    IF ~Truthy(mcp.error) THEN NoResult
    ELSE IF ~Has(mcp.error, "message") THEN Raise("KeyError", 0, J("message"))
    ELSE Raise("Exception", 0, [prefix |-> failure, detail |-> mcp.error.message])

ExecuteTool(resp) ==
    LET r == ExecuteMcp(resp)
    IN  IF ~r.ok THEN r
        ELSE IF Truthy(r.value.error) THEN McpError(r.value, "MCP tool execution failed")
        ELSE Return(r.value.result)

GetAvailableTools(resp) ==
    LET r == ExecuteMcp(resp)
    IN  IF ~r.ok THEN r
        ELSE IF Truthy(r.value.error) THEN McpError(r.value, "MCP discovery failed")
        ELSE IF r.value.result = None THEN Raise("TypeError", 0, None)
        ELSE IF ~Has(r.value.result, "tools") THEN Raise("KeyError", 0, J("tools"))
        ELSE Return(r.value.result.tools)

\* the part of method o that follows session.get / session.post
Finish(o, resp) ==
    CASE o = "execute_agent" -> ExecuteAgent(resp)
      [] o = "execute_workflow" -> ExecuteWorkflow(resp)
      [] o = "get_available_agents" -> GetAvailableAgents(resp)
      [] o = "get_available_workflows" -> GetAvailableWorkflows(resp)
      [] o = "get_available_plugins" -> GetAvailablePlugins(resp)
      [] o = "get_platform_analytics" -> GetPlatformAnalytics(resp)
      [] o = "get_health" -> GetHealth(resp)
      [] o = "get_mcp_capabilities" -> GetMcpCapabilities(resp)
      [] o = "execute_tool" -> ExecuteTool(resp)
      [] o = "get_available_tools" -> GetAvailableTools(resp)

----------------------------------------------------------------------------
(* The caller: one REST or MCP call at a time *)

NoResponse == [status |-> 0, body |-> NoBody]

InitHttp ==
    /\ retries \in 0..MaxRetries
    /\ clock = 0
    /\ pc = "idle"
    /\ op = "none"
    /\ reqId = -1
    /\ total = 0
    /\ history = <<>>
    /\ attempts = 0
    /\ seen = <<>>
    /\ elapsed = 0
    /\ response = NoResponse
    /\ result = NoResult

\* threads of the application sharing one OrchestrallMCPClient
Callers == {"t1", "t2"}
IdleCaller == [pc |-> "idle", op |-> "none", id |-> -1, total |-> 0, history |-> <<>>,
               result |-> NoResult]
CallersIdle == callers = [c \in Callers |-> IdleCaller]

\* PatientFlowMigrator(source_dir, target_dir) constructed, with every
\* source file present and a valid target, and run_migration not called
MigIdle ==
    /\ migSource = {}
    /\ migTarget = [git |-> TRUE, subdir |-> TRUE]
    /\ migPc = 0
    /\ migTrace = <<>>
    /\ migWrites = {}
    /\ migResult = "none"

NoFrame == [kind |-> "none"]
DefaultLib == [reportsCallbackErrors |-> FALSE, closeArgs |-> 0, closeTakesArgs |-> FALSE]

InitWsIdle ==
    /\ wsState = "Disconnected"
    /\ wsLib = DefaultLib
    /\ handlers = {}
    /\ connects = 0
    /\ frames = 0
    /\ frame = NoFrame
    /\ calls = <<>>
    /\ printed = <<>>

Init == InitHttp /\ InitWsIdle /\ CallersIdle /\ MigIdle

\* time.time() moves on between two calls
Tick ==
    /\ pc = "idle"
    /\ clock < MaxClock
    /\ clock' = clock + 1
    /\ UNCHANGED <<retries, pc, op, reqId, total, history, attempts, seen, elapsed,
                   response, result>>
    /\ UNCHANGED <<wsVars, callers, migVars>>

\* the caller invokes method o: an MCP method builds its request with
\* id=str(int(time.time() * 1000)); the session starts with Retry(total=retries)
StartCall(o) ==
    /\ pc = "idle"
    /\ pc' = "sending"
    /\ op' = o
    /\ reqId' = IF o \in McpOps THEN clock ELSE -1
    /\ total' = retries
    /\ history' = <<>>
    /\ attempts' = 0
    /\ seen' = <<>>
    /\ elapsed' = 0
    /\ response' = NoResponse
    /\ result' = NoResult
    /\ UNCHANGED <<retries, clock>>
    /\ UNCHANGED <<wsVars, callers, migVars>>

\* one HTTP attempt of the call in progress ends in `out`: urlopen retries,
\* raises, or returns the response, and then the method runs to its end
Attempt(out) ==
    /\ pc = "sending"
    /\ LET u == UrlOpen(Method(op), total, history, out)
       IN  /\ attempts' = attempts + 1
           /\ seen' = Append(seen, HistoryEntry(out))
           /\ elapsed' = elapsed + Duration(out) + u.sleep
           /\ total' = u.total
           /\ history' = u.history
           /\ pc' = IF u.next = "retry" THEN "sending" ELSE "done"
           /\ response' = IF u.next = "return"
                          THEN [status |-> out.status, body |-> out.body]
                          ELSE NoResponse
           /\ result' = CASE u.next = "retry" -> NoResult
                          [] u.next = "return" -> Finish(op, response')
                          [] u.next = "raise" ->
                               Raise(u.exc, 0, [reason |-> HistoryEntry(out)])
    /\ UNCHANGED <<retries, clock, op, reqId>>
    /\ UNCHANGED <<wsVars, callers, migVars>>

\* the caller has its result and is ready for the next call
EndCall ==
    /\ pc = "done"
    /\ pc' = "idle"
    /\ op' = "none"
    /\ reqId' = -1
    /\ total' = 0
    /\ history' = <<>>
    /\ attempts' = 0
    /\ seen' = <<>>
    /\ elapsed' = 0
    /\ response' = NoResponse
    /\ result' = NoResult
    /\ UNCHANGED <<retries, clock>>
    /\ UNCHANGED <<wsVars, callers, migVars>>

Next ==
    \/ Tick
    \/ \E o \in Ops : StartCall(o)
    \/ \E out \in Outcomes(op, reqId) : Attempt(out)
    \/ EndCall

Spec == Init /\ [][Next]_vars

----------------------------------------------------------------------------
(* Claims about the retry policy *)

Done == pc = "done"
LastSeen == seen[Len(seen)]
\* every attempt of the call ended in a status of the retry list
AllRetryableStatus ==
    /\ seen # <<>>
    /\ \A i \in 1..Len(seen) : seen[i].error = "none" /\ seen[i].status \in StatusForcelist
EndedOnRetryableStatus ==
    Done /\ LastSeen.error = "none" /\ LastSeen.status \in StatusForcelist

\* C1 (as claimed): a call never makes more than `retries` HTTP attempts,
\* counting the first, and makes exactly `retries` attempts when every
\* attempt is answered with a retryable status (stated for retries >= 1,
\* where a cap of `retries` attempts allows a call at all).
C1_AtMostRetriesAttempts ==
    retries >= 1 =>
        /\ attempts <= retries
        /\ Done /\ AllRetryableStatus => attempts = retries

\* C1 (amended): a call never makes more than retries + 1 HTTP attempts (the
\* first one and `retries` retries); answered with a retryable status on
\* every attempt, a GET call makes exactly retries + 1 attempts and then
\* fails, and a POST call makes exactly one and fails.
C1_AtMostRetriesPlusOneAttempts ==
    /\ attempts <= retries + 1
    /\ Done /\ AllRetryableStatus =>
         /\ ~result.ok
         /\ attempts = IF Method(op) = "GET" THEN retries + 1 ELSE 1

C1_Witness ==
    /\ Done /\ AllRetryableStatus
    /\ Method(op) = "GET" /\ retries >= 2 /\ attempts = retries + 1

\* C2 (as claimed): a call whose attempts all end in a retryable status
\* until the retry budget is exhausted fails with the HTTP-status error that
\* carries the status code of the last attempt.
C2_ExhaustedRaisesHttpError ==
    Done /\ AllRetryableStatus /\ total < 0 =>
        /\ ~result.ok
        /\ result.exc = "HTTPError"
        /\ result.status = LastSeen.status

\* C2 (amended): a call whose attempts all end in a retryable status until
\* the retry budget is exhausted fails with RetryError, whose cause names the
\* status code of the last attempt, and never returns a response; the
\* HTTP-status error (HTTPError with the status code) is raised only when
\* the retryable status is not retried, which is after the single attempt
\* of a POST call.
C2_ExhaustedRaisesRetryError ==
    Done /\ AllRetryableStatus =>
        /\ ~result.ok
        /\ IF total < 0
           THEN /\ result.exc = "RetryError"
                /\ result.msg.reason.status = LastSeen.status
                /\ response = NoResponse
           ELSE /\ result.exc = "HTTPError"
                /\ result.status = LastSeen.status
                /\ Method(op) = "POST" /\ attempts = 1

C2_Witness ==
    /\ Done /\ AllRetryableStatus /\ total < 0
    /\ Len(seen) >= 2 /\ seen[1].status # LastSeen.status
    /\ result.exc = "RetryError"

\* the 200 response carries what the method returns: a success envelope
\* with data, or for the two methods without envelope the body / its result
WellFormed(o, resp) ==
    /\ resp.status = 200
    /\ CASE o = "get_health" -> resp.body.kind \in {"object", "array"}
         [] o = "get_mcp_capabilities" ->
              resp.body.kind = "object" /\ Has(resp.body.obj, "result")
         [] OTHER ->
              /\ resp.body.kind = "object"
              /\ Has(resp.body.obj, "success") /\ resp.body.obj.success
              /\ Has(resp.body.obj, "data")
DataOf(o, resp) ==
    CASE o = "get_health" ->
           IF resp.body.kind = "array" THEN JsonArray ELSE resp.body.obj
      [] o = "get_mcp_capabilities" -> resp.body.obj.result
      [] OTHER -> resp.body.obj.data
Got503Then200 ==
    /\ Done /\ LastSeen.status = 200
    /\ \E i \in 1..(Len(seen) - 1) : seen[i].status = 503

\* C3 (as claimed): a call that receives 503 and later 200 does not fail,
\* returns the data of the 200 response, and has made no more than
\* `retries` attempts.
C3_RecoversWithinRetries ==
    Got503Then200 /\ WellFormed(op, response) =>
        /\ result.ok
        /\ result.value = DataOf(op, response)
        /\ attempts <= retries

\* C3 (amended): a call that receives 503 on an attempt and, on a later
\* attempt, a 200 response with a well-formed success body does not fail and
\* returns the data of the 200 response, having made no more than
\* retries + 1 attempts; such a call is a GET call, since a POST call is not
\* re-attempted after a 503.
C3_RecoversWithinRetriesPlusOne ==
    Got503Then200 /\ WellFormed(op, response) =>
        /\ result.ok
        /\ result.value = DataOf(op, response)
        /\ attempts <= retries + 1
        /\ Method(op) = "GET"

C3_Witness ==
    /\ Got503Then200 /\ WellFormed(op, response)
    /\ op = "get_available_agents" /\ attempts = retries + 1 /\ result.ok

\* C4 (as claimed): the retry policy does not depend on the HTTP method: a
\* POST call that receives a retryable status is re-attempted while budget
\* remains, so it ends on a retryable status only with the budget exhausted.
C4_PostRetriedLikeGet ==
    EndedOnRetryableStatus => total < 0

\* C4 (amended): the retry on a retryable status applies to GET calls only.
\* A GET call is re-attempted until the budget is exhausted; a POST call
\* that receives a retryable status is not re-attempted, whatever budget
\* remains, and fails with the HTTPError of that status; a POST call is
\* re-attempted only after a connection failure.
C4_OnlyGetRetriedOnStatus ==
    /\ EndedOnRetryableStatus /\ Method(op) = "GET" =>
           total < 0 /\ result.exc = "RetryError"
    /\ EndedOnRetryableStatus /\ Method(op) = "POST" =>
           result.exc = "HTTPError" /\ result.status = LastSeen.status
    /\ Method(op) = "POST" =>
           \A i \in 1..(Len(seen) - 1) : seen[i].error \in ConnectErrors

C4_Witness ==
    /\ EndedOnRetryableStatus /\ Method(op) = "POST"
    /\ total >= 1 /\ attempts = 1 /\ result.exc = "HTTPError"

TimeoutExceptions == {"ReadTimeout", "ConnectTimeout"}

\* C8 (as claimed): the timeout bounds the call as a whole: once the call
\* has lasted longer than timeout no further attempt is started, and the
\* call fails with a timeout error.
C8_TimeoutBoundsCall ==
    /\ pc = "sending" => elapsed <= Timeout
    /\ Done /\ elapsed > Timeout => result.exc \in TimeoutExceptions

\* C8 (amended): the timeout bounds each attempt, not the call. An attempt
\* that times out is retried like any other failure while budget remains (a
\* read timeout on GET calls only), so a call may last longer than timeout.
\* A call fails with a timeout error only when its last attempt timed out
\* and was not retried: the read timeout of a POST call, or the connect
\* timeout that exhausts the budget; a GET call whose read timeouts exhaust
\* the budget fails with ConnectionError.
C8_TimeoutBoundsAttempt ==
    /\ Done /\ result.exc = "ReadTimeout" =>
           LastSeen.error = "read_timeout" /\ Method(op) = "POST"
    /\ Done /\ result.exc = "ConnectTimeout" =>
           LastSeen.error = "connect_timeout" /\ total < 0
    /\ Done /\ LastSeen.error = "read_timeout" /\ Method(op) = "GET" =>
           total < 0 /\ result.exc = "ConnectionError"
    /\ Done /\ LastSeen.error = "connect_timeout" => total < 0

C8_Witness ==
    /\ Done /\ result.exc = "ConnectionError" /\ Method(op) = "GET"
    /\ \A i \in 1..Len(seen) : seen[i].error = "read_timeout"
    /\ Len(seen) >= 2 /\ elapsed > Timeout

----------------------------------------------------------------------------
(* Claims about the REST envelope and the MCP response *)

EnvelopedOps == {"execute_agent", "execute_workflow", "get_available_agents",
                 "get_available_workflows", "get_available_plugins",
                 "get_platform_analytics"}
GotObject == Done /\ response.status = 200 /\ response.body.kind = "object"

\* C5: an enveloped REST operation that receives a 2xx response whose
\* envelope has success = false fails; it returns neither a typed response
\* nor the envelope's data (stated for an envelope that carries data).
C5_SuccessFalseFails ==
    /\ GotObject /\ op \in EnvelopedOps
    /\ Has(response.body.obj, "success") /\ ~response.body.obj.success
    /\ Has(response.body.obj, "data") /\ response.body.obj.data # None
    => ~result.ok

\* C6: an MCP call whose response carries an id other than the id of the
\* request sent fails; the response's result is not returned to the caller
\* (stated for a response that carries a result and no error).
C6_IdMismatchFails ==
    /\ GotObject /\ op \in McpOps
    /\ response.body.obj.id # reqId
    /\ Has(response.body.obj, "result") /\ ~Has(response.body.obj, "error")
    => ~result.ok

\* C7: an MCP call whose response contains an error object, whatever its
\* content and whether or not a result is present too, fails; the result
\* is not returned (stated for a response that carries both, with the
\* request's id).
C7_ErrorFieldFails ==
    /\ GotObject /\ op \in McpOps
    /\ response.body.obj.id = reqId
    /\ Has(response.body.obj, "error") /\ response.body.obj.error # None
    /\ Has(response.body.obj, "result")
    => ~result.ok

----------------------------------------------------------------------------
(* The event stream: the callbacks connect_websocket hands to WebSocketApp *)

LifecycleKeys == {"on_error", "on_close"}
HandlerSets == {{}, {"A", "B"}, {"A", "B", "on_error"}, {"A", "B", "on_close"},
                {"A", "B", "on_error", "on_close"}, {"on_error", "on_close"}}
FrameTypes == {"A", "B", "C", "on_error", "on_close"}
Unhashable == [list |-> TRUE]

\* inbound frames: text that is no JSON, JSON that is no object, and
\* objects with a string type, without type, or with a list as type
FrameData ==
    {[type |-> J(t), payload |-> J("p")] : t \in FrameTypes}
    \cup {[payload |-> J("p")], [type |-> Unhashable, payload |-> J("p")]}
Frames ==
    {[kind |-> "notjson"], [kind |-> "nondict"]}
    \cup {[kind |-> "object", data |-> d] : d \in FrameData}

Ran(cs, ps) == [calls |-> cs, printed |-> ps, raised |-> "none"]
Raised(cs, ps, exc) == [calls |-> cs, printed |-> ps, raised |-> exc]

\* event_handlers[key](...): the caller's on_close callback is written to be
\* called without argument; called with one it raises unless it takes any
InvokeHandler(key, arg) ==
    IF key = "on_close" /\ arg # None /\ ~wsLib.closeTakesArgs
    THEN Raised(<<>>, <<>>, "TypeError")
    ELSE Ran(<<[key |-> key, arg |-> arg]>>, <<>>)

\* on_message(ws, message)
OnMessage(f) ==
    IF f.kind = "notjson" THEN Ran(<<>>, <<"Failed to parse WebSocket message">>)
    ELSE IF f.kind = "nondict" THEN Raised(<<>>, <<>>, "AttributeError")
    ELSE LET event_type == PyGet(f.data, "type")
         IN  IF handlers = {} THEN Ran(<<>>, <<>>)
             ELSE IF event_type = Unhashable THEN Raised(<<>>, <<>>, "TypeError")
             ELSE IF event_type # None /\ event_type.str \in handlers
                  THEN InvokeHandler(event_type.str, [frame |-> f.data])
             ELSE Ran(<<>>, <<>>)

\* on_error(ws, error)
OnError(error) ==
    Ran(IF "on_error" \in handlers
        THEN <<[key |-> "on_error", arg |-> [error |-> error]]>> ELSE <<>>,
        <<"WebSocket error">>)

\* on_close(ws): it takes the socket only, so a library that also passes the
\* close status and message gets a TypeError
OnClose(extraArgs) ==
    IF extraArgs # 0 THEN Raised(<<>>, <<>>, "TypeError")
    ELSE LET h == IF "on_close" \in handlers THEN InvokeHandler("on_close", None)
                  ELSE Ran(<<>>, <<>>)
         IN  [h EXCEPT !.printed = <<"WebSocket connection closed">> \o @]

\* on_open(ws)
OnOpen == Ran(<<>>, <<"Connected to Orchestrall WebSocket">>)

\* WebSocketApp._callback: an exception of a callback is caught and logged;
\* a library that reports it calls on_error with it
Callback(r) ==
    IF r.raised # "none" /\ wsLib.reportsCallbackErrors
    THEN LET e == OnError(r.raised)
         IN  Ran(r.calls \o e.calls, r.printed \o e.printed)
    ELSE Ran(r.calls, r.printed)

Both(a, b) == Ran(a.calls \o b.calls, a.printed \o b.printed)

HttpIdle ==
    /\ retries = 0
    /\ clock = 0
    /\ pc = "idle"
    /\ op = "none"
    /\ reqId = -1
    /\ total = 0
    /\ history = <<>>
    /\ attempts = 0
    /\ seen = <<>>
    /\ elapsed = 0
    /\ response = NoResponse
    /\ result = NoResult

\* a callback that runs the WebSocketApp again when the stream ends
ReconnectingAfter(ended) == "Connecting"

\* the state on_close and on_error leave the stream in: they print and call
\* the caller's callback, and do not run the WebSocketApp again
StateAfter(ended) == ended

\* connect_websocket(event_handlers) has returned the WebSocketApp
InitWs ==
    /\ HttpIdle
    /\ wsState = "Disconnected"
    /\ wsLib \in [reportsCallbackErrors : BOOLEAN, closeArgs : {0, 2},
                  closeTakesArgs : BOOLEAN]
    /\ handlers \in HandlerSets
    /\ connects = 0
    /\ frames = 0
    /\ frame = NoFrame
    /\ calls = <<>>
    /\ printed = <<>>
    /\ CallersIdle
    /\ MigIdle

Log(r) ==
    /\ calls' = calls \o r.calls
    /\ printed' = printed \o r.printed

\* the caller runs the WebSocketApp (run_forever)
Connect ==
    /\ wsState \in {"Disconnected", "Failed"}
    /\ connects < MaxConnects
    /\ wsState' = "Connecting"
    /\ connects' = connects + 1
    /\ frames' = 0
    /\ frame' = NoFrame
    /\ calls' = <<>>
    /\ printed' = <<>>
    /\ UNCHANGED <<wsLib, handlers>>
    /\ UNCHANGED <<httpVars, callers, migVars>>

\* the handshake succeeds
Open ==
    /\ wsState = "Connecting"
    /\ wsState' = "Connected"
    /\ Log(Callback(OnOpen))
    /\ UNCHANGED <<wsLib, handlers, connects, frames, frame>>
    /\ UNCHANGED <<httpVars, callers, migVars>>

\* a frame arrives
Message(f) ==
    /\ wsState = "Connected"
    /\ frames < MaxFrames
    /\ frames' = frames + 1
    /\ frame' = f
    /\ Log(Callback(OnMessage(f)))
    /\ UNCHANGED <<wsState, wsLib, handlers, connects>>
    /\ UNCHANGED <<httpVars, callers, migVars>>

\* the connection fails: on_error, then the teardown's on_close
TransportError ==
    /\ wsState \in {"Connecting", "Connected"}
    /\ wsState' = StateAfter("Failed")
    /\ Log(Both(Callback(OnError("ConnectionError")),
                Callback(OnClose(wsLib.closeArgs))))
    /\ UNCHANGED <<wsLib, handlers, connects, frames, frame>>
    /\ UNCHANGED <<httpVars, callers, migVars>>

\* the server closes the connection
RemoteClose ==
    /\ wsState = "Connected"
    /\ wsState' = StateAfter("Disconnected")
    /\ Log(Callback(OnClose(wsLib.closeArgs)))
    /\ UNCHANGED <<wsLib, handlers, connects, frames, frame>>
    /\ UNCHANGED <<httpVars, callers, migVars>>

\* the caller closes the connection (ws.close())
ClientClose ==
    /\ wsState = "Connected"
    /\ wsState' = StateAfter("Disconnected")
    /\ Log(Callback(OnClose(wsLib.closeArgs)))
    /\ UNCHANGED <<wsLib, handlers, connects, frames, frame>>
    /\ UNCHANGED <<httpVars, callers, migVars>>

NextWs ==
    \/ Connect
    \/ Open
    \/ \E f \in Frames : Message(f)
    \/ TransportError
    \/ RemoteClose
    \/ ClientClose

SpecWs == InitWs /\ [][NextWs]_vars

----------------------------------------------------------------------------
(* Claims about the event stream *)

FrameArrives == frames' = frames + 1
\* the event handlers of the caller: the entries of event_handlers other
\* than the lifecycle callbacks 'on_error' and 'on_close'
EventHandlers == handlers \ LifecycleKeys

\* C9: on a Connected stream, an inbound frame that fails to parse is
\* dropped and reported through the caller's error callback; it runs no
\* event handler and the stream stays Connected (stated for a frame that is
\* no JSON and a caller that registered 'on_error').
C9_MalformedFrameReported ==
    [][FrameArrives /\ frame'.kind = "notjson" /\ "on_error" \in handlers =>
          /\ wsState' = "Connected"
          /\ Len(calls') = Len(calls) + 1
          /\ calls'[Len(calls')].key = "on_error"]_vars

\* C10: on a Connected stream, a successfully parsed frame whose type tag
\* has an event handler runs that handler, and no other callback, once with
\* the event; a frame whose type tag has no event handler runs no handler
\* and no error callback; either way the stream stays Connected.
C10_DispatchByType ==
    [][/\ FrameArrives /\ frame'.kind = "object"
       /\ Has(frame'.data, "type") /\ frame'.data.type # Unhashable
       => /\ wsState' = "Connected"
          /\ calls' = IF frame'.data.type.str \in EventHandlers
                      THEN Append(calls, [key |-> frame'.data.type.str,
                                          arg |-> [frame |-> frame'.data]])
                      ELSE calls]_vars

\* number of times the callback registered under key has run
Count(cs, key) == Cardinality({i \in DOMAIN cs : cs[i].key = key})

\* C11: each Connected -> Disconnected transition, by a remote close or by
\* a client close, runs the caller's on_close callback exactly once.
C11_CloseNotifiedOnce ==
    [][wsState = "Connected" /\ wsState' = "Disconnected" /\ "on_close" \in handlers =>
          Count(calls', "on_close") = Count(calls, "on_close") + 1]_vars

\* C12: the stream never reconnects by itself: it enters Connecting only
\* from Disconnected or Failed and only by a connect call of the caller, and
\* otherwise moves only along Connecting -> Connected,
\* Connected -> Disconnected, Connected -> Failed and Connecting -> Failed.
C12_NoAutomaticReconnect ==
    [][wsState' # wsState =>
          \/ /\ wsState \in {"Disconnected", "Failed"} /\ wsState' = "Connecting"
             /\ connects' = connects + 1
          \/ wsState = "Connecting" /\ wsState' \in {"Connected", "Failed"}
          \/ wsState = "Connected" /\ wsState' \in {"Disconnected", "Failed"}]_vars

C12_Witness ==
    /\ wsState = "Connecting" /\ connects = 2
    /\ calls = <<>>

\* C14: the lifecycle callbacks 'on_error' and 'on_close' run on a
\* transport error and on a close only: no inbound frame, whatever its type
\* tag, runs one of them (stated for frames that are JSON objects with a
\* string as type).
C14_FramesRunNoLifecycleCallback ==
    [][/\ FrameArrives /\ frame'.kind = "object"
       /\ Has(frame'.data, "type") /\ frame'.data.type # Unhashable
       => \A k \in LifecycleKeys : Count(calls', k) = Count(calls, k)]_vars

----------------------------------------------------------------------------
(* Concurrent callers of OrchestrallMCPClient: each builds one MCP request *)
(* and sends it through a session with Retry(total=retries).               *)

\* caller c enters execute_tool or get_available_tools, which builds
\* MCPRequest(id=str(int(time.time() * 1000)), ...) and passes it to
\* execute_mcp
BuildRequest(c, o) ==
    /\ callers[c].pc = "idle"
    /\ callers' = [callers EXCEPT ![c] =
                       [pc |-> "sent", op |-> o, id |-> clock, total |-> retries,
                        history |-> <<>>, result |-> NoResult]]
    /\ UNCHANGED <<httpVars, wsVars, migVars>>

\* one HTTP attempt of caller c's request ends in `out`: urlopen retries,
\* raises, or returns the response, and then the method runs to its end
Respond(c, out) ==
    /\ callers[c].pc = "sent"
    /\ LET me == callers[c]
           u == UrlOpen(Method(me.op), me.total, me.history, out)
           res == CASE u.next = "retry" -> NoResult
                    [] u.next = "return" ->
                         Finish(me.op, [status |-> out.status, body |-> out.body])
                    [] u.next = "raise" ->
                         Raise(u.exc, 0, [reason |-> HistoryEntry(out)])
       IN  callers' = [callers EXCEPT ![c] =
                           [me EXCEPT !.pc = IF u.next = "retry" THEN "sent" ELSE "done",
                                      !.total = u.total,
                                      !.history = u.history,
                                      !.result = res]]
    /\ UNCHANGED <<httpVars, wsVars, migVars>>

InitIds == HttpIdle /\ InitWsIdle /\ CallersIdle /\ MigIdle

NextIds ==
    \/ Tick
    \/ \E c \in Callers, o \in McpOps : BuildRequest(c, o)
    \/ \E c \in Callers : \E out \in Outcomes(callers[c].op, callers[c].id) : Respond(c, out)

SpecIds == InitIds /\ [][NextIds]_vars

\* C13: any two MCP requests built by one client, by sequential or by
\* concurrent callers, carry different ids, also when both are built within
\* the same clock tick.
C13_IdsUnique ==
    \A c1, c2 \in Callers :
        c1 # c2 /\ callers[c1].pc # "idle" /\ callers[c2].pc # "idle" =>
            callers[c1].id # callers[c2].id

----------------------------------------------------------------------------
(* PatientFlowMigrator: the files it moves and the steps of run_migration *)

\* files_to_copy entries of type 'new'
NewFiles ==
    {"modern-orchestrall/src/patientflow/README.md",
     "modern-orchestrall/src/patientflow/routes.js",
     "modern-orchestrall/src/patientflow/services/patient-service.js",
     "modern-orchestrall/src/patientflow/services/doctor-service.js",
     "modern-orchestrall/src/patientflow/services/appointment-service.js",
     "modern-orchestrall/src/patientflow/services/conversation-session-service.js",
     "modern-orchestrall/src/patientflow/services/interaction-logger.js",
     "modern-orchestrall/src/patientflow/validation/schemas.js",
     "modern-orchestrall/tests/unit/patientflow-services.test.js",
     "modern-orchestrall/tests/unit/patientflow-validation.test.js"}
PackageJson == "modern-orchestrall/package.json"
AppCommercial == "modern-orchestrall/src/app-commercial.js"
SeedJs == "modern-orchestrall/prisma/seed.js"
\* files_to_copy entries of type 'modify'
ModifiedFiles == {PackageJson, AppCommercial, SeedJs}
FilesToCopy == NewFiles \cup ModifiedFiles

\* dirs_to_create, in the order of the loop
DirsToCreate ==
    <<"modern-orchestrall/src/patientflow/services",
      "modern-orchestrall/src/patientflow/validation",
      "modern-orchestrall/tests/unit">>

\* what a step did: what it returned and what it wrote under target_dir
Did(ret, writes) == [ret |-> ret, writes |-> writes]

\* validate_source(): False when a file of files_to_copy is missing
ValidateSource == {Did(migSource = {}, {})}

\* validate_target(): False without .git or without modern-orchestrall
ValidateTarget == {Did(migTarget.git /\ migTarget.subdir, {})}

\* create_directories(): mkdir in order; the first failure ends the loop
CreateDirectories ==
    {Did(k = Len(DirsToCreate), {DirsToCreate[i] : i \in 1..k}) :
         k \in 0..Len(DirsToCreate)}

\* copy_files(): every new file is tried; False when one of them failed
CopyFiles == {Did(failed = {}, NewFiles \ failed) : failed \in SUBSET NewFiles}

\* merge_package_json(): reading fails, or writing fails, or both succeed
MergePackageJson == {Did(FALSE, {}), Did(FALSE, {PackageJson}), Did(TRUE, {PackageJson})}

\* update_app_commercial(): reading fails or the marker is missing (False,
\* nothing written), the routes are already there (True, nothing written),
\* or the file is rewritten, which may fail
UpdateAppCommercial ==
    {Did(FALSE, {}), Did(TRUE, {}), Did(FALSE, {AppCommercial}), Did(TRUE, {AppCommercial})}

\* update_seed(): shutil.copy2 of seed.js, which may fail before or while
\* writing
UpdateSeed == {Did(FALSE, {}), Did(FALSE, {SeedJs}), Did(TRUE, {SeedJs})}

\* the steps of run_migration, in the order of its body
Steps ==
    <<"validate_source", "validate_target", "create_directories", "copy_files",
      "merge_package_json", "update_app_commercial", "update_seed">>

StepOutcomes(step) ==
    CASE step = "validate_source" -> ValidateSource
      [] step = "validate_target" -> ValidateTarget
      [] step = "create_directories" -> CreateDirectories
      [] step = "copy_files" -> CopyFiles
      [] step = "merge_package_json" -> MergePackageJson
      [] step = "update_app_commercial" -> UpdateAppCommercial
      [] step = "update_seed" -> UpdateSeed

\* a run_migration that goes on whatever validate_target returned
GoesOnPastTargetValidation(step, ret) == ret \/ step = "validate_target"

\* `if not self.<step>(): return False`
GoesOn(step, ret) == ret

\* the migrator is constructed for some source and some target directory
InitMig ==
    /\ HttpIdle /\ InitWsIdle /\ CallersIdle
    /\ migSource \in {{}} \cup {{f} : f \in FilesToCopy} \cup {FilesToCopy}
    /\ migTarget \in [git : BOOLEAN, subdir : BOOLEAN]
    /\ migPc = 0
    /\ migTrace = <<>>
    /\ migWrites = {}
    /\ migResult = "none"

\* run_migration() is called: it prints the header and reaches its first step
RunMigration ==
    /\ migPc = 0
    /\ migPc' = 1
    /\ UNCHANGED <<migSource, migTarget, migTrace, migWrites, migResult>>
    /\ UNCHANGED <<httpVars, wsVars, callers>>

\* run_migration runs its next step, which does d, and returns False, goes
\* on to the step after it, or returns True after the last one
Step(d) ==
    /\ migPc \in 1..Len(Steps)
    /\ migTrace' = Append(migTrace, [step |-> Steps[migPc], ret |-> d.ret])
    /\ migWrites' = migWrites \cup d.writes
    /\ IF ~GoesOn(Steps[migPc], d.ret)
       THEN migPc' = Len(Steps) + 1 /\ migResult' = "False"
       ELSE IF migPc = Len(Steps)
       THEN migPc' = Len(Steps) + 1 /\ migResult' = "True"
       ELSE migPc' = migPc + 1 /\ migResult' = "none"
    /\ UNCHANGED <<migSource, migTarget>>
    /\ UNCHANGED <<httpVars, wsVars, callers>>

NextMig ==
    \/ RunMigration
    \/ migPc \in 1..Len(Steps) /\ \E d \in StepOutcomes(Steps[migPc]) : Step(d)

SpecMig == InitMig /\ [][NextMig]_vars

\* C15: run_migration runs its steps in the fixed order validate_source,
\* validate_target, create_directories, copy_files, merge_package_json,
\* update_app_commercial, update_seed, runs no step after one that returned
\* False, returns True only if all seven returned True, and writes nothing
\* under the target directory unless both validations succeeded.
C15_OrderedStopsAtFailure ==
    /\ Len(migTrace) <= Len(Steps)
    /\ \A i \in DOMAIN migTrace : migTrace[i].step = Steps[i]
    /\ \A i \in DOMAIN migTrace : i < Len(migTrace) => migTrace[i].ret
    /\ migResult = "True" =>
           Len(migTrace) = Len(Steps) /\ \A i \in DOMAIN migTrace : migTrace[i].ret
    /\ migWrites # {} =>
           /\ Len(migTrace) > 2 /\ migTrace[1].ret /\ migTrace[2].ret
           /\ migSource = {} /\ migTarget.git /\ migTarget.subdir

C15_Witness ==
    /\ migResult = "False" /\ Len(migTrace) = 4
    /\ migWrites \cap NewFiles # {}

====
